---------------------------- MODULE Spec2Model ----------------------------
(***************************************************************************)
(* ProteinDock backend: the docking job orchestrator (processDockingJob),  *)
(* the process runner (VinaDocking.runDocking), the pose post-processor    *)
(* (VinaDocking.clusterPoses), the job store (mongoose DockingJob          *)
(* documents) and the viewer cleanup sweep (setupViewerCleanup).           *)
(*                                                                         *)
(* Scores and RMSD values are fixed-point numbers in tenths                *)
(* (2.0 is written 20).  A Math.random() draw is a choice from a small set.*)
(***************************************************************************)
EXTENDS Integers, Sequences, FiniteSets, TLC

\* ------------------------------------------------------------------ bounds
\* length of the engine's stdout in one run, in messages and line ends
MaxOutput == 4
\* poses in the success message of the engine
MaxPoses == 2
\* store operations that the store rejects in one behaviour
MaxFaults == 1
\* poses in a list handed to clusterPoses
MaxClusterPoses == 3
\* characters of engine output in an observed run of the stdout handler
MaxStream == 6

\* ------------------------------------------------------------- input sets
Jobs == {"j1"}

Absent == "absent"

\* parameters.numPoses of a submission (0: not given, or given as 0)
RequestNumPoses == {0, -1, 4}
\* proteinId and ligandId of a submission: absent, not an ObjectId, the
\* ObjectId of no record, the id of a record
RequestIds == {"missing", "malformed", "unknown", "known"}
\* parameters.method of a submission; the schema enum accepts only these
RequestMethods == {Absent, "vina", "attracting-cavities"}
\* progress values of the engine's progress messages
ProgressValues == {5, 60}
\* readings of the wall clock
Times == {0, 1}
\* expiry times of the viewers the engine writes
ExpiryTimes == {0}
\* exit codes of the engine process
ExitCodes == {0, 1}
\* pose scores and rmsd_lb values the engine reports (tenths)
EngineScores == {-90, -70}
EngineRmsd == {0, 30}
\* best_affinity of the engine's success message (tenths)
EngineAffinities == {-90}
\* Math.random() * 0.8 in the synthetic generator (tenths)
RandomOffsets == {0, 7}
\* Math.random() * 3 for the synthetic base score (tenths)
RandomBase == {0, 29}

\* --------------------------------------------------------------- documents
Fields == {"status", "progress", "results", "error", "completedAt"}

NoResults == [populated |-> FALSE]
NoError == ""
NoViewer == [htmlPath |-> FALSE, expiresAt |-> -1]

\* new DockingJob({... status: 'pending', progress: 0})
NewJobDoc ==
  [status |-> "pending", progress |-> 0, results |-> NoResults,
   error |-> NoError, completedAt |-> FALSE]

\* the paths of results that dockingJobSchema declares (populated marks a
\* results object that has been assigned)
ResultsSchema == {"populated", "bindingAffinity", "viewer", "poses", "clusters"}

\* job.results = r under the schema's strict mode: keys that the schema
\* does not declare are dropped
CastResults(r) == [f \in DOMAIN r \cap ResultsSchema |-> r[f]]

\* a mongoose document in memory: its values and its modified paths
NewMem == [doc |-> NewJobDoc, dirty |-> {}]

\* job.<f> = v : the path is marked modified when the value changes
SetField(m, f, v) ==
  [doc |-> [m.doc EXCEPT ![f] = v],
   dirty |-> IF m.doc[f] = v THEN m.dirty ELSE m.dirty \cup {f}]

\* the document the store holds after job.save(): modified paths only
SavedDoc(d, m) == [f \in Fields |-> IF f \in m.dirty THEN m.doc[f] ELSE d[f]]

\* the in-memory document after a successful save
Cleaned(m) == [m EXCEPT !.dirty = {}]

\* --------------------------------------------------------- pure functions
\* stable insertion of pose p into the sorted list s (a.score - b.score)
RECURSIVE InsertByScore(_, _)
InsertByScore(s, p) ==
  IF s = << >> THEN << p >>
  ELSE IF p.score < s[1].score THEN << p >> \o s
       ELSE << s[1] >> \o InsertByScore(Tail(s), p)

RECURSIVE SortFrom(_, _, _)
SortFrom(poses, i, acc) ==
  IF i > Len(poses) THEN acc
  ELSE SortFrom(poses, i + 1, InsertByScore(acc, poses[i]))

\* poses.sort((a, b) => a.score - b.score)
SortByScore(poses) == SortFrom(poses, 1, << >>)

\* otherPose.rmsd_lb || 0
RmsdLb(pose) == IF "rmsd_lb" \in DOMAIN pose THEN pose.rmsd_lb ELSE 0

\* the poses that the inner loop adds to the cluster seeded by idx
SimilarPoses(poses, rmsdThreshold, idx, assigned) ==
  {o \in 1..Len(poses) : /\ o \notin assigned
                         /\ o # idx
                         /\ RmsdLb(poses[o]) <= rmsdThreshold}

\* an outer loop that does not skip the poses already assigned
RECURSIVE ClusterFromEveryPose(_, _, _, _, _)
ClusterFromEveryPose(poses, rmsdThreshold, idx, assigned, clusters) ==
  IF idx > Len(poses) THEN clusters
  ELSE LET others == SimilarPoses(poses, rmsdThreshold, idx, assigned)
           cluster == [clusterId |-> Len(clusters),
                       members |-> {idx} \cup others,
                       bestScore |-> poses[idx].score,
                       representativePose |-> poses[idx].poseId]
       IN ClusterFromEveryPose(poses, rmsdThreshold, idx + 1,
                               assigned \cup others \cup {idx},
                               Append(clusters, cluster))

\* poses.forEach((pose, idx) => ...) from index idx on: the clusters built,
\* each with its members (positions in the pose list)
RECURSIVE ClusterFrom(_, _, _, _, _)
ClusterFrom(poses, rmsdThreshold, idx, assigned, clusters) ==
  IF idx > Len(poses) THEN clusters
  ELSE IF idx \in assigned
       THEN ClusterFrom(poses, rmsdThreshold, idx + 1, assigned, clusters)
       ELSE LET others == SimilarPoses(poses, rmsdThreshold, idx, assigned)
                cluster == [clusterId |-> Len(clusters),
                            members |-> {idx} \cup others,
                            bestScore |-> poses[idx].score,
                            representativePose |-> poses[idx].poseId]
            IN ClusterFrom(poses, rmsdThreshold, idx + 1,
                           assigned \cup others \cup {idx},
                           Append(clusters, cluster))

\* the object pushed for a cluster: memberCount is members.length
ClusterSummary(cluster) ==
  [clusterId |-> cluster.clusterId,
   memberCount |-> Cardinality(cluster.members),
   bestScore |-> cluster.bestScore,
   representativePose |-> cluster.representativePose]

\* a clusterPoses whose bestScore is the lowest score of the cluster
clusterPosesMinScore(poses, rmsdThreshold) ==
  LET built == ClusterFrom(poses, rmsdThreshold, 1, {}, << >>)
      lowest(members) ==
        CHOOSE sc \in {poses[i].score : i \in members} :
          \A i \in members : sc <= poses[i].score
  IN [c \in 1..Len(built) |->
        [ClusterSummary(built[c]) EXCEPT
           !.bestScore = lowest(built[c].members)]]

\* vinaDocking.clusterPoses(poses, rmsdThreshold)
clusterPoses(poses, rmsdThreshold) ==
  LET built == ClusterFrom(poses, rmsdThreshold, 1, {}, << >>)
  IN [c \in 1..Len(built) |-> ClusterSummary(built[c])]

\* Math.floor(n / 3) for an integer n
FloorDiv3(n) == n \div 3

\* Math.ceil(n / 3) for an integer n
CeilDiv3(n) == IF n >= 0 THEN (n + 2) \div 3 ELSE -((-n) \div 3)

\* ------------------------------------------------------ engine protocol
NL == [k |-> "nl"]
ProgressMsg(v) == [k |-> "progress", progress |-> v]
SuccessMsg == [k |-> "success"]
TextLine == [k |-> "text"]
EngineMessages == {ProgressMsg(v) : v \in ProgressValues} \cup {SuccessMsg, TextLine}

RECURSIVE SplitLines(_, _, _)
\* buffer.split('\n'): the complete lines and the rest after the last '\n'
SplitLines(buf, cur, lines) ==
  IF buf = << >> THEN [lines |-> lines, rest |-> cur]
  ELSE IF Head(buf) = NL
       THEN SplitLines(Tail(buf), << >>, Append(lines, cur))
       ELSE SplitLines(Tail(buf), Append(cur, Head(buf)), lines)

\* JSON.parse(line): a line that is exactly one message parses
Parses(line) == Len(line) = 1 /\ line[1].k \in {"progress", "success"}

\* resolve / reject of a promise: only the first settlement counts
Settle(p, outcome) == IF p.state = "pending" THEN outcome ELSE p

\* a filter that lets a repeated progress value through
NewerOrEqual(v, last) == v >= last

\* result.progress > lastProgress
Newer(v, last) == v > last

\* a catch that rejects the run on a line that is not JSON
AfterBadLineRejects(st, line) ==
  [st EXCEPT !.promise = Settle(@, [state |-> "rejected", error |-> "bad line"])]

\* catch (e) of the line handler: the line is logged
AfterBadLine(st, line) == st

RECURSIVE ProcessLines(_, _, _)
\* lines.forEach of the stdout handler; st = [lastProgress, calls, promise]
ProcessLines(lines, i, st) ==
  IF i > Len(lines) THEN st
  ELSE LET line == lines[i]
           st0 == IF line # << >> /\ ~ Parses(line)
                  THEN AfterBadLine(st, line)
                  ELSE st
           st1 == IF /\ line # << >>
                     /\ Parses(line)
                     /\ line[1].k = "progress"
                     /\ Newer(line[1].progress, st0.lastProgress)
                  THEN [st0 EXCEPT !.lastProgress = line[1].progress,
                                   !.calls = Append(@, line[1].progress)]
                  ELSE st0
           st2 == IF line # << >> /\ Parses(line) /\ line[1].k = "success"
                  THEN [st1 EXCEPT !.promise =
                          Settle(@, [state |-> "resolved", error |-> NoError])]
                  ELSE st1
       IN ProcessLines(lines, i + 1, st2)

\* python.stdout.on('data') on a chunk: the buffer is extended and split,
\* its complete lines are processed and the rest is kept
OnData(buffer, last, p, chunk) ==
  LET sp == SplitLines(buffer \o chunk, << >>, << >>)
      st == ProcessLines(sp.lines, 1,
                         [lastProgress |-> last, calls |-> << >>, promise |-> p])
  IN [outputBuffer |-> sp.rest, lastProgress |-> st.lastProgress,
      promise |-> st.promise, calls |-> st.calls]

SeqToSet(s) == {s[i] : i \in 1..Len(s)}

\* ------------------------------------------------------------------ state
VARIABLES
  vinaAvailable,  \* module flag set by the startup probe
  vinaStatus,     \* result of the startup probe, "unchecked" before it ends
  store,          \* DockingJob collection: job id -> persisted document
  params,         \* dockingParams of each submitted job
  job,            \* the mongoose document held by processDockingJob
  pc,             \* position of processDockingJob
  thrown,         \* message of the error caught by processDockingJob
  promise,        \* the promise returned by runDocking
  child,          \* the engine child process: state and exit code
  received,       \* length of the stdout delivered so far
  outputBuffer,   \* runDocking's rolling buffer
  lastProgress,   \* runDocking's monotonicity filter
  inflight,       \* progress writes issued and not yet answered
  faults,         \* store and file operations that have failed so far
  now,            \* the latest reading of the wall clock
  files,          \* jobs whose viewer html file is on disk
  sweep,          \* the cleanup pass: phase, clock reading, jobs found,
                  \* jobs still to clean, jobs whose iteration threw
  response,       \* the answer of POST /submit to each request
  viewerResp,     \* the answer to the latest GET /viewer/:viewerId
  call,           \* a call of clusterPoses: arguments and returned value
  run,            \* a run of the stdout handler observed from the launch:
                  \* its state, the output received, the values delivered
  probe           \* a call of checkVinaAvailability: the engine's reply
                  \* and the value the call resolved with

vars == << vinaAvailable, vinaStatus, store, params, job, pc, thrown, promise,
           child, received, outputBuffer, lastProgress, inflight,
           faults, now, files, sweep, response, viewerResp, call, run,
           probe >>

probeVars == << vinaAvailable, vinaStatus >>
runnerVars == << promise, child, received, outputBuffer, lastProgress >>
envVars == << now, files, sweep >>
apiVars == << response, viewerResp, call, run, probe >>

NoPromise == [state |-> "none", error |-> NoError]
NoChild == [state |-> "none", code |-> 0]

\* no answer yet
NoResponse == [code |-> 0]
\* no cleanup pass has run
NoSweep == [phase |-> "idle", at |-> 0, found |-> {}, todo |-> {},
            failed |-> {}]
\* no call of clusterPoses
NoCall == [poses |-> << >>, rmsdThreshold |-> 0, returned |-> FALSE,
           clusters |-> << >>]

\* the engine has just been spawned: new Promise, outputBuffer = '',
\* lastProgress = 0
NoRun == [outputBuffer |-> << >>, lastProgress |-> 0,
          promise |-> [state |-> "pending", error |-> NoError],
          delivered |-> << >>, stream |-> << >>,
          closed |-> FALSE, code |-> 0]

\* the value of a probe that has not resolved
NoProbeResult == [available |-> FALSE, missing |-> "absent",
                  installCommand |-> FALSE, error |-> FALSE]
\* no call of checkVinaAvailability is observed
NoProbe == [state |-> "none",
            reply |-> [parses |-> FALSE, status |-> "ok", missing |-> "absent",
                       install |-> FALSE, code |-> 0],
            result |-> NoProbeResult]

\* the server has started and has taken no request about the jobs J
Started(J) ==
  /\ vinaAvailable = FALSE
  /\ vinaStatus = "unchecked"
  /\ params = [j \in J |-> [numPoses |-> 9, method |-> "vina"]]
  /\ job = [j \in J |-> NewMem]
  /\ thrown = [j \in J |-> NoError]
  /\ promise = [j \in J |-> NoPromise]
  /\ child = [j \in J |-> NoChild]
  /\ received = [j \in J |-> 0]
  /\ outputBuffer = [j \in J |-> << >>]
  /\ lastProgress = [j \in J |-> 0]
  /\ inflight = [j \in J |-> {}]
  /\ faults = 0
  /\ now = 0
  /\ response = [j \in J |-> NoResponse]
  /\ viewerResp = NoResponse
  /\ run = NoRun

Init ==
  /\ Started(Jobs)
  /\ store = [j \in {} |-> NewJobDoc]
  /\ pc = [j \in Jobs |-> "idle"]
  /\ files = {}
  /\ sweep = NoSweep
  /\ probe = NoProbe
  /\ call = NoCall

\* ------------------------------------------------- availability probe
\* replies of the engine to { check_only: true }: the output parses as
\* JSON or not, its status, its missing_packages (absent, an empty list or
\* a list of names), its install_command, and the exit code
ProbeReplies ==
  [parses : BOOLEAN, status : {"ok", "error"},
   missing : {"absent", "empty", "named"}, install : BOOLEAN,
   code : ExitCodes]

\* checkVinaAvailability(): the value of .available
ProbeAvailable(reply) ==
  IF reply.parses
  THEN ~ (reply.status = "error" /\ reply.missing # "absent")
  ELSE FALSE

\* checkVinaAvailability(): the value the promise resolves with on 'close'
ProbeResult(reply) ==
  IF ~ reply.parses
  THEN [available |-> FALSE, missing |-> "absent", installCommand |-> FALSE,
        error |-> TRUE]
  ELSE IF reply.status = "error" /\ reply.missing # "absent"
       THEN [available |-> FALSE, missing |-> reply.missing,
             installCommand |-> reply.install, error |-> FALSE]
       ELSE [available |-> TRUE, missing |-> "absent",
             installCommand |-> FALSE, error |-> FALSE]

\* python.on('close') of the observed probe
ProbeClose ==
  /\ probe.state = "pending"
  /\ probe' = [probe EXCEPT !.state = "resolved",
                            !.result = ProbeResult(probe.reply)]
  /\ UNCHANGED << store, params, job, pc, thrown, inflight, faults,
                  response, viewerResp, call, run >>
  /\ UNCHANGED probeVars
  /\ UNCHANGED runnerVars
  /\ UNCHANGED envVars

\* the engine cannot be spawned: the child emits 'error', for which the
\* probe registers no listener, and the event is thrown as an uncaught
\* exception
ProbeSpawnError ==
  /\ probe.state = "pending"
  /\ probe' = [probe EXCEPT !.state = "crashed"]
  /\ UNCHANGED << store, params, job, pc, thrown, inflight, faults,
                  response, viewerResp, call, run >>
  /\ UNCHANGED probeVars
  /\ UNCHANGED runnerVars
  /\ UNCHANGED envVars

\* the startup probe of the docking routes ends
CheckVinaAvailability(reply) ==
  /\ vinaStatus = "unchecked"
  /\ vinaAvailable' = ProbeAvailable(reply)
  /\ vinaStatus' = IF ProbeAvailable(reply) THEN "available" ELSE "unavailable"
  /\ UNCHANGED << store, params, job, pc, thrown, inflight, faults >>
  /\ UNCHANGED runnerVars
  /\ UNCHANGED envVars
  /\ UNCHANGED apiVars

\* ------------------------------------------------------------ submission
\* parameters?.numPoses || 9 and parameters?.method || 'vina'
DockingParams(numPoses, method) ==
  [numPoses |-> IF numPoses = 0 THEN 9 ELSE numPoses,
   method |-> IF method = Absent THEN "vina" ELSE method]

\* a validation that checks the format of the protein id only
SubmitRefusalProteinFormat(proteinId, ligandId) ==
  IF proteinId = "missing" \/ ligandId = "missing" THEN 400
  ELSE IF proteinId = "malformed" THEN 400
  ELSE IF proteinId # "known" \/ ligandId # "known" THEN 404
  ELSE 0

\* a lookup that verifies the protein only
SubmitRefusalProteinLookup(proteinId, ligandId) ==
  IF proteinId = "missing" \/ ligandId = "missing" THEN 400
  ELSE IF proteinId = "malformed" THEN 400
  ELSE IF ligandId = "malformed" THEN 400
  ELSE IF proteinId # "known" THEN 404
  ELSE 0

\* the status of the refusal of POST /submit: both ids are required (400),
\* both must be ObjectIds (400) and both records must exist (404); 0 when
\* the request is accepted
SubmitRefusal(proteinId, ligandId) ==
  IF proteinId = "missing" \/ ligandId = "missing" THEN 400
  ELSE IF proteinId = "malformed" THEN 400
  ELSE IF ligandId = "malformed" THEN 400
  ELSE IF proteinId # "known" \/ ligandId # "known" THEN 404
  ELSE 0

\* processDockingJob up to its first await, which runs inside the call made
\* by the submit handler: job.status = 'running', job.progress = 10
Dispatched(m) == SetField(SetField(m, "status", "running"), "progress", 10)

\* an id that the client supplies, used or not
FreshIdReused(j) == TRUE

\* new DockingJob({...}) allots the id j: an ObjectId that no earlier
\* request was given
FreshId(j) == pc[j] = "idle"

\* POST /submit: the request is refused, or the job is created as pending,
\* processDockingJob is called detached and the handler answers 201 with
\* the job document it holds; a rejected save of the new job answers 500
Submit(j, proteinId, ligandId, numPoses, method) ==
  /\ FreshId(j)
  /\ \/ /\ SubmitRefusal(proteinId, ligandId) # 0
        /\ response' = [response EXCEPT ![j] =
                          [code |-> SubmitRefusal(proteinId, ligandId),
                           proteinId |-> proteinId, ligandId |-> ligandId]]
        /\ pc' = [pc EXCEPT ![j] = "refused"]
        /\ UNCHANGED << store, params, job, faults >>
     \/ /\ SubmitRefusal(proteinId, ligandId) = 0
        /\ store' = [k \in DOMAIN store \cup {j} |->
                       IF k = j THEN NewJobDoc ELSE store[k]]
        /\ params' = [params EXCEPT ![j] = DockingParams(numPoses, method)]
        /\ job' = [job EXCEPT ![j] = Dispatched(NewMem)]
        /\ pc' = [pc EXCEPT ![j] = "start"]
        /\ response' = [response EXCEPT ![j] =
                          [code |-> 201, proteinId |-> proteinId,
                           ligandId |-> ligandId,
                           job |-> Dispatched(NewMem).doc]]
        /\ UNCHANGED faults
     \/ /\ SubmitRefusal(proteinId, ligandId) = 0
        /\ faults < MaxFaults
        /\ faults' = faults + 1
        /\ \E applied \in BOOLEAN :
             store' = IF applied
                      THEN [k \in DOMAIN store \cup {j} |->
                              IF k = j THEN NewJobDoc ELSE store[k]]
                      ELSE store
        /\ response' = [response EXCEPT ![j] =
                          [code |-> 500, proteinId |-> proteinId,
                           ligandId |-> ligandId]]
        /\ pc' = [pc EXCEPT ![j] = "refused"]
        /\ UNCHANGED << params, job >>
  /\ UNCHANGED << thrown, inflight, viewerResp, call, run, probe >>
  /\ UNCHANGED probeVars
  /\ UNCHANGED runnerVars
  /\ UNCHANGED envVars

\* ---------------------------------------------------------- job.save()
\* the store after a save of m that was rejected: the write was lost, or
\* it was applied and its acknowledgement was lost
RejectedSave(st, j, m, applied) ==
  IF applied THEN [st EXCEPT ![j] = SavedDoc(st[j], m)] ELSE st

\* a save whose rejection is not thrown: the run goes on at okPc
SaveJobIgnoringFailure(j, m, okPc) ==
  \/ /\ store' = [store EXCEPT ![j] = SavedDoc(store[j], m)]
     /\ job' = [job EXCEPT ![j] = Cleaned(m)]
     /\ pc' = [pc EXCEPT ![j] = okPc]
     /\ UNCHANGED << thrown, faults >>
  \/ /\ faults < MaxFaults
     /\ faults' = faults + 1
     /\ job' = [job EXCEPT ![j] = m]
     /\ pc' = [pc EXCEPT ![j] = okPc]
     /\ UNCHANGED << thrown, store >>

\* await job.save() of the document m: the store takes the modified paths
\* and the run goes on at okPc, or the save is rejected and the error is
\* thrown into the catch block of processDockingJob; the document keeps
\* its modified paths after a rejected save
SaveJob(j, m, okPc) ==
  \/ /\ store' = [store EXCEPT ![j] = SavedDoc(store[j], m)]
     /\ job' = [job EXCEPT ![j] = Cleaned(m)]
     /\ pc' = [pc EXCEPT ![j] = okPc]
     /\ UNCHANGED << thrown, faults >>
  \/ /\ faults < MaxFaults
     /\ faults' = faults + 1
     /\ job' = [job EXCEPT ![j] = m]
     /\ pc' = [pc EXCEPT ![j] = "catch"]
     /\ thrown' = [thrown EXCEPT ![j] = "store write failed"]
     /\ \E applied \in BOOLEAN : store' = RejectedSave(store, j, m, applied)

\* an exception that is thrown after the document has been written
ThrowAfterSave(j, m, message) ==
  /\ job' = [job EXCEPT ![j] = m]
  /\ pc' = [pc EXCEPT ![j] = "catch"]
  /\ thrown' = [thrown EXCEPT ![j] = message]
  /\ store' = [store EXCEPT ![j] = SavedDoc(store[j], m)]
  /\ UNCHANGED faults

\* an exception thrown by the run: control goes to the catch block
Throw(j, m, message) ==
  /\ job' = [job EXCEPT ![j] = m]
  /\ pc' = [pc EXCEPT ![j] = "catch"]
  /\ thrown' = [thrown EXCEPT ![j] = message]
  /\ UNCHANGED << store, faults >>

UseRealVina(j) == vinaAvailable /\ params[j].method = "vina"

\* processDockingJob, the running transition: the store answers the save
\* of status running, progress 10
StartRun(j) ==
  /\ pc[j] = "start"
  /\ SaveJob(j, job[j], IF UseRealVina(j) THEN "runDocking" ELSE "sim50")
  /\ UNCHANGED << params, inflight >>
  /\ UNCHANGED probeVars
  /\ UNCHANGED apiVars
  /\ UNCHANGED runnerVars
  /\ UNCHANGED envVars

\* ------------------------------------------------------- synthetic mode
\* the first and the second setTimeout of the simulation: progress 50, 75
SimProgress(j) ==
  \/ /\ pc[j] = "sim50"
     /\ SaveJob(j, SetField(job[j], "progress", 50), "sim75")
     /\ UNCHANGED << params, inflight >>
     /\ UNCHANGED probeVars
     /\ UNCHANGED apiVars
     /\ UNCHANGED runnerVars
     /\ UNCHANGED envVars
  \/ /\ pc[j] = "sim75"
     /\ SaveJob(j, SetField(job[j], "progress", 75), "simGenerate")
     /\ UNCHANGED << params, inflight >>
     /\ UNCHANGED probeVars
     /\ UNCHANGED apiVars
     /\ UNCHANGED runnerVars
     /\ UNCHANGED envVars

RECURSIVE SimLoop(_, _, _, _, _, _, _)
\* the two nested loops that generate 3 clusters of simulated poses;
\* offs[k] is the Math.random() * 0.8 drawn for the k-th pose
SimLoop(numPoses, baseScore, offs, clusterId, i, poses, clusters) ==
  IF clusterId >= 3 THEN [poses |-> poses, clusters |-> clusters]
  ELSE LET clusterBaseScore == baseScore + clusterId * 15
           posesInCluster == CeilDiv3(numPoses)
           poseId == Len(poses) + 1
       IN IF i < posesInCluster /\ Len(poses) < numPoses
          THEN SimLoop(numPoses, baseScore, offs, clusterId, i + 1,
                       Append(poses, [poseId |-> poseId,
                                      clusterId |-> clusterId,
                                      score |-> clusterBaseScore + offs[poseId]]),
                       clusters)
          ELSE SimLoop(numPoses, baseScore, offs, clusterId + 1, 0, poses,
                       Append(clusters,
                              [clusterId |-> clusterId,
                               memberCount |-> posesInCluster,
                               bestScore |-> clusterBaseScore,
                               representativePose |->
                                 clusterId * posesInCluster + 1]))

\* job.results of the simulation
SimResults(poses, clusters) ==
  [populated |-> TRUE,
   bindingAffinity |-> poses[1].score,
   viewer |-> NoViewer,
   poses |-> poses,
   clusters |-> clusters,
   bestPose |-> [poseId |-> poses[1].poseId, score |-> poses[1].score,
                 bindingAffinity |-> poses[1].score],
   method |-> "simulated"]

PoseIndexes(numPoses) == 1..(IF numPoses > 0 THEN numPoses ELSE 0)

\* the simulated poses are generated, sorted and saved as the results
SimGenerate(j) ==
  /\ pc[j] = "simGenerate"
  /\ \E r \in RandomBase, offs \in [PoseIndexes(params[j].numPoses) -> RandomOffsets] :
       LET gen == SimLoop(params[j].numPoses, -65 - r, offs, 0, 0, << >>, << >>)
           poses == SortByScore(gen.poses)
           m1 == SetField(SetField(job[j], "status", "completed"), "progress", 100)
       IN IF poses = << >>
          THEN \* poses[0].score of an empty list throws a TypeError
               Throw(j, m1, "Cannot read properties of undefined")
          ELSE SaveJob(j, SetField(SetField(m1, "results",
                                 CastResults(SimResults(poses, gen.clusters))),
                                   "completedAt", TRUE),
                       "done")
  /\ UNCHANGED << params, inflight >>
  /\ UNCHANGED probeVars
  /\ UNCHANGED apiVars
  /\ UNCHANGED runnerVars
  /\ UNCHANGED envVars

\* ------------------------------------------------------- the catch block
\* catch (error): status failed, error = error.message, save; a rejected
\* save leaves processDockingJob rejected (logged by the submit handler)
CatchError(j) ==
  /\ pc[j] = "catch"
  /\ LET m == SetField(SetField(job[j], "status", "failed"), "error", thrown[j])
     IN \/ /\ store' = [store EXCEPT ![j] = SavedDoc(store[j], m)]
           /\ job' = [job EXCEPT ![j] = Cleaned(m)]
           /\ pc' = [pc EXCEPT ![j] = "done"]
           /\ UNCHANGED faults
        \/ /\ faults < MaxFaults
           /\ faults' = faults + 1
           /\ job' = [job EXCEPT ![j] = m]
           /\ pc' = [pc EXCEPT ![j] = "rejected"]
           /\ \E applied \in BOOLEAN :
                store' = RejectedSave(store, j, m, applied)
  /\ UNCHANGED << params, thrown, inflight >>
  /\ UNCHANGED probeVars
  /\ UNCHANGED apiVars
  /\ UNCHANGED runnerVars
  /\ UNCHANGED envVars

\* --------------------------------------------------------- process runner
\* a lastProgress kept on the shared VinaDocking instance
FilterShared(j) == CHOOSE k \in DOMAIN lastProgress : TRUE

\* let lastProgress = 0 inside the promise of runDocking: the run of job j
\* reads and writes its own filter
FilterOf(j) == j

\* runDocking up to the return of the promise: the working directory is
\* made and the engine is spawned, or mkdir rejects
RunDocking(j) ==
  /\ pc[j] = "runDocking"
  /\ \/ /\ child' = [child EXCEPT ![j] = [state |-> "running", code |-> 0]]
        /\ promise' = [promise EXCEPT ![j] = [state |-> "pending", error |-> NoError]]
        /\ outputBuffer' = [outputBuffer EXCEPT ![j] = << >>]
        /\ lastProgress' = [lastProgress EXCEPT ![FilterOf(j)] = 0]
        /\ pc' = [pc EXCEPT ![j] = "awaitRun"]
        /\ UNCHANGED << job, thrown, store, faults, received >>
     \/ /\ Throw(j, job[j], "mkdir failed")
        /\ UNCHANGED runnerVars
  /\ UNCHANGED << params, inflight >>
  /\ UNCHANGED probeVars
  /\ UNCHANGED apiVars
  /\ UNCHANGED envVars

\* an 'error' handler that only logs
AfterErrorLogged(p, message) == p

\* the promise after python.on('error'): reject(err)
AfterError(p, message) == Settle(p, [state |-> "rejected", error |-> message])

\* python.on('error'): the engine could not be launched
SpawnError(j) ==
  /\ child[j].state = "running"
  /\ received[j] = 0
  /\ child' = [child EXCEPT ![j] = [state |-> "failed", code |-> 0]]
  /\ promise' = [promise EXCEPT ![j] = AfterError(@, "spawn failed")]
  /\ UNCHANGED << store, params, job, pc, thrown, inflight, faults,
                  received, outputBuffer, lastProgress >>
  /\ UNCHANGED probeVars
  /\ UNCHANGED apiVars
  /\ UNCHANGED envVars

RECURSIVE Chunks(_, _)
\* the chunks of at most n characters a 'data' event can carry; the
\* engine prints lines, so a message is followed by a line end
Chunks(midLine, n) ==
  IF n = 0 THEN {}
  ELSE LET heads == IF midLine THEN {NL} ELSE EngineMessages
       IN {<< h >> : h \in heads}
          \cup {<< h >> \o c : h \in heads, c \in Chunks(~ midLine, n - 1)}

\* python.stdout.on('data'): one chunk of the engine's output
StdoutData(j, chunk) ==
  /\ child[j].state = "running"
  /\ received[j] + Len(chunk) <= MaxOutput
  /\ received' = [received EXCEPT ![j] = @ + Len(chunk)]
  /\ LET st == OnData(outputBuffer[j], lastProgress[FilterOf(j)], promise[j],
                      chunk)
     IN /\ outputBuffer' = [outputBuffer EXCEPT ![j] = st.outputBuffer]
        /\ lastProgress' = [lastProgress EXCEPT ![FilterOf(j)] = st.lastProgress]
        /\ promise' = [promise EXCEPT ![j] = st.promise]
        \* onProgress: DockingJob.findByIdAndUpdate(job._id, { progress })
        /\ inflight' = [inflight EXCEPT ![j] = @ \cup SeqToSet(st.calls)]
  /\ UNCHANGED << store, params, job, pc, thrown, faults, child >>
  /\ UNCHANGED probeVars
  /\ UNCHANGED apiVars
  /\ UNCHANGED envVars

\* a 'close' handler that only logs the exit code
AfterCloseLogged(p, code) == p

\* the promise after python.on('close') with the exit code
AfterClose(p, code) ==
  IF code # 0
  THEN Settle(p, [state |-> "rejected", error |-> "Vina docking failed"])
  ELSE p

\* python.on('close'): the engine has exited with code and its output
\* has been delivered
ChildClose(j, code) ==
  /\ child[j].state = "running"
  /\ child' = [child EXCEPT ![j] = [state |-> "closed", code |-> code]]
  /\ promise' = [promise EXCEPT ![j] = AfterClose(@, code)]
  /\ UNCHANGED << store, params, job, pc, thrown, inflight, faults,
                  received, outputBuffer, lastProgress >>
  /\ UNCHANGED probeVars
  /\ UNCHANGED apiVars
  /\ UNCHANGED envVars

\* the rejected promise is thrown at the await of runDocking
RunRejected(j) ==
  /\ pc[j] = "awaitRun"
  /\ promise[j].state = "rejected"
  /\ Throw(j, job[j], promise[j].error)
  /\ UNCHANGED << params, inflight >>
  /\ UNCHANGED probeVars
  /\ UNCHANGED apiVars
  /\ UNCHANGED runnerVars
  /\ UNCHANGED envVars

\* a 'data' event with any chunk the engine can still print
StdoutChunk(j) ==
  \E chunk \in Chunks(outputBuffer[j] # << >>, MaxOutput - received[j]) :
    StdoutData(j, chunk)

\* ------------------------------------------------- the engine's result
\* pose lists of a success message: poseId is the engine's ordinal
EnginePoseLists ==
  UNION { { [i \in 1..n |-> [poseId |-> i, score |-> f[i][1], rmsd_lb |-> f[i][2]]] :
              f \in [1..n -> EngineScores \X EngineRmsd] } : n \in 0..MaxPoses }

\* results.viewer of a success message
EngineViewers ==
  {NoViewer} \cup [htmlPath : {TRUE}, expiresAt : ExpiryTimes]

\* the payload of the success message that resolved the run
EngineResults ==
  [hasPoses : BOOLEAN, poses : EnginePoseLists, best_affinity : EngineAffinities,
   viewer : EngineViewers]

\* results.poses.map((pose, idx) => ...): the Pose entity of each raw pose
MapPoses(raw) ==
  [i \in 1..Len(raw) |->
     [poseId |-> raw[i].poseId,
      clusterId |-> (i - 1) \div 3,
      score |-> raw[i].score,
      rmsd |-> raw[i].rmsd_lb]]

\* job.results of a real run; poses is the mapped list, sorted in place
\* before bestPose is read
VinaResults(res, poses, clusters) ==
  LET sorted == SortByScore(poses)
  IN [populated |-> TRUE,
      bindingAffinity |-> res.best_affinity,
      viewer |-> res.viewer,
      poses |-> sorted,
      clusters |-> clusters,
      bestPose |-> [poseId |-> sorted[1].poseId, score |-> sorted[1].score,
                    bindingAffinity |-> res.best_affinity],
      method |-> "vina-real"]

\* the run resolved: the result is normalised, clustered and saved
ProcessResultsOf(j, res) ==
  /\ pc[j] = "awaitRun"
  /\ promise[j].state = "resolved"
  /\ res.hasPoses \/ res.poses = << >>
  /\    IF ~ res.hasPoses
          THEN \* results.poses.map of undefined throws a TypeError
               /\ Throw(j, job[j], "Cannot read properties of undefined")
               /\ UNCHANGED files
          ELSE LET poses == MapPoses(res.poses)
                   clusters == clusterPoses(poses, 20)
                   m1 == SetField(SetField(job[j], "status", "completed"),
                                  "progress", 100)
               IN IF poses = << >>
                  THEN \* poses[0].poseId of an empty list throws
                       /\ Throw(j, m1, "Cannot read properties of undefined")
                       /\ UNCHANGED files
                  ELSE /\ SaveJob(j, SetField(SetField(m1, "results",
                           CastResults(VinaResults(res, poses, clusters))),
                                      "completedAt", TRUE),
                                  "done")
                       \* the engine has written the viewer's html file
                       /\ files' = IF res.viewer.htmlPath THEN files \cup {j}
                                   ELSE files
  /\ UNCHANGED << params, inflight, now, sweep >>
  /\ UNCHANGED probeVars
  /\ UNCHANGED apiVars
  /\ UNCHANGED runnerVars

\* the run resolved with any payload the engine can send
ProcessResults(j) == \E res \in EngineResults : ProcessResultsOf(j, res)

\* ------------------------------------------------------------- job store
\* GET /job/:id : the body of the answer is the stored document
GetJob(j) == store[j]

\* the document after a replacement update (overwrite): every field but
\* progress falls back to its default
ProgressReplace(d, v) == [NewJobDoc EXCEPT !.progress = v]

\* the document after findByIdAndUpdate(job._id, { progress }): a $set of
\* the progress field
ProgressUpdate(d, v) == [d EXCEPT !.progress = v]

\* the store answers a progress write
ApplyProgress(j, v) ==
  /\ v \in inflight[j]
  /\ inflight' = [inflight EXCEPT ![j] = @ \ {v}]
  /\ store' = [store EXCEPT ![j] = ProgressUpdate(@, v)]
  /\ UNCHANGED << params, job, pc, thrown, faults >>
  /\ UNCHANGED probeVars
  /\ UNCHANGED apiVars
  /\ UNCHANGED runnerVars
  /\ UNCHANGED envVars

\* a progress callback whose error escapes into the run
AfterProgressErrorRejects(p, message) ==
  Settle(p, [state |-> "rejected", error |-> message])

\* the promise of the run after the catch of the progress callback: the
\* error is logged
AfterProgressError(p, message) == p

\* the store rejects a progress write: the callback logs the error
FailProgress(j, v) ==
  /\ v \in inflight[j]
  /\ faults < MaxFaults
  /\ faults' = faults + 1
  /\ inflight' = [inflight EXCEPT ![j] = @ \ {v}]
  /\ promise' = [promise EXCEPT ![j] =
                   AfterProgressError(@, "progress write failed")]
  /\ UNCHANGED << store, params, job, pc, thrown >>
  /\ UNCHANGED << child, received, outputBuffer, lastProgress >>
  /\ UNCHANGED probeVars
  /\ UNCHANGED apiVars
  /\ UNCHANGED envVars

\* ----------------------------------------------------- viewer cleanup
\* the query with $lte in place of $lt
ExpiredViewersInclusive(t) ==
  {j \in DOMAIN store : /\ store[j].results.populated
                        /\ store[j].results.viewer.htmlPath
                        /\ store[j].results.viewer.expiresAt <= t}

\* DockingJob.find({ 'results.viewer.expiresAt': { $lt: now },
\*                   'results.viewer.htmlPath': { $exists: true } })
ExpiredViewers(t) ==
  {j \in DOMAIN store : /\ store[j].results.populated
                        /\ store[j].results.viewer.htmlPath
                        /\ store[j].results.viewer.expiresAt < t}

\* the interval callback reads the clock (t) and runs the query; a pass
\* that finds nothing ends at once
SweepFind(t) ==
  /\ sweep.phase = "idle"
  /\ t >= now
  /\ ExpiredViewers(t) # {}
  /\ now' = t
  /\ sweep' = [phase |-> "loop", at |-> t, found |-> ExpiredViewers(t),
               todo |-> ExpiredViewers(t), failed |-> {}]
  /\ UNCHANGED << store, params, job, pc, thrown, inflight, faults, files >>
  /\ UNCHANGED probeVars
  /\ UNCHANGED apiVars
  /\ UNCHANGED runnerVars

\* the for loop moves past job j; the pass ends after the last job
AfterSweepJob(sw, j) ==
  [sw EXCEPT !.todo = @ \ {j},
             !.phase = IF sw.todo \ {j} = {} THEN "idle" ELSE "loop"]

\* the catch inside the loop, with the loop abandoned: the try around the
\* whole pass
AfterSweepErrorAborts(sw, j) ==
  [sw EXCEPT !.todo = {}, !.phase = "idle", !.failed = @ \cup {j}]

\* the catch inside the loop: the error of job j is logged and the loop
\* goes on
AfterSweepError(sw, j) ==
  [AfterSweepJob(sw, j) EXCEPT !.failed = @ \cup {j}]

\* a pass that clears the whole results object
ClearResults(d) == [d EXCEPT !.results = NoResults]

\* job.results.viewer = {} followed by job.save(): the stored document
\* takes the one modified path
ClearViewer(d) == [d EXCEPT !.results.viewer = NoViewer]

\* one iteration of the pass: the file is unlinked if present, the viewer
\* sub-document is cleared and saved; unlinkSync or save may throw
SweepJob(j) ==
  /\ sweep.phase = "loop"
  /\ j \in sweep.todo
  /\ \/ \* the iteration completes
        /\ files' = files \ {j}
        /\ store' = [store EXCEPT ![j] = ClearViewer(@)]
        /\ sweep' = AfterSweepJob(sweep, j)
        /\ UNCHANGED faults
     \/ \* fs.unlinkSync throws: the viewer is not touched
        /\ j \in files
        /\ faults < MaxFaults
        /\ faults' = faults + 1
        /\ sweep' = AfterSweepError(sweep, j)
        /\ UNCHANGED << files, store >>
     \/ \* job.save() is rejected, the write lost or applied
        /\ faults < MaxFaults
        /\ faults' = faults + 1
        /\ files' = files \ {j}
        /\ sweep' = AfterSweepError(sweep, j)
        /\ \E applied \in BOOLEAN :
             store' = IF applied
                      THEN [store EXCEPT ![j] = ClearViewer(@)]
                      ELSE store
  /\ UNCHANGED << params, job, pc, thrown, inflight, now >>
  /\ UNCHANGED probeVars
  /\ UNCHANGED apiVars
  /\ UNCHANGED runnerVars

\* ------------------------------------------------------ viewer serving
\* the jobs of the store that the viewer endpoint and the sweep work on
ViewerJobs == {"j1", "j2"}
\* req.params.viewerId: the viewer of a job carries the job's name, and
\* "nobody" is an id that no job has ever carried
ViewerIds == ViewerJobs \cup {"nobody"}

\* DockingJob.findOne({ 'results.viewer.viewerId': viewerId }) finds a job
HasViewer(v) ==
  /\ v \in DOMAIN store
  /\ store[v].results.populated
  /\ store[v].results.viewer.htmlPath

\* the status of the answer to GET /viewer/:viewerId at clock reading t
ViewerAnswer(v, t) ==
  IF ~ HasViewer(v) THEN 404
  ELSE IF t > store[v].results.viewer.expiresAt THEN 410
  ELSE IF v \notin files THEN 404
  ELSE 200

\* GET /viewer/:viewerId ; a rejected findOne is answered 500
GetViewer(v, t) ==
  /\ sweep.phase \in {"idle", "loop"}
  /\ t >= now
  /\ now' = t
  /\ \/ /\ viewerResp' = [code |-> ViewerAnswer(v, t), viewerId |-> v, at |-> t]
        /\ UNCHANGED faults
     \/ /\ faults < MaxFaults
        /\ faults' = faults + 1
        /\ viewerResp' = [code |-> 500, viewerId |-> v, at |-> t]
  /\ UNCHANGED << store, params, job, pc, thrown, inflight, files, sweep,
                  response, call, run, probe >>
  /\ UNCHANGED probeVars
  /\ UNCHANGED runnerVars

\* the raw pose of the completed jobs below
ViewerPose == << [poseId |-> 1, score |-> -90, rmsd_lb |-> 0] >>

\* a completed job of an earlier run of the server, as processDockingJob
\* saved it
ViewerDoc(viewer) ==
  [status |-> "completed", progress |-> 100,
   results |-> CastResults(VinaResults(
                 [best_affinity |-> -90, viewer |-> viewer],
                 MapPoses(ViewerPose),
                 clusterPoses(MapPoses(ViewerPose), 20))),
   error |-> NoError, completedAt |-> TRUE]

\* results.viewer of the completed jobs: none, or a viewer of any expiry
StoredViewers == {NoViewer} \cup [htmlPath : {TRUE}, expiresAt : Times]

\* the server has started over a store of completed jobs; a viewer's file
\* is on disk or has gone missing
ViewerInit ==
  /\ Started(ViewerJobs)
  /\ store \in [ViewerJobs -> {ViewerDoc(w) : w \in StoredViewers}]
  /\ pc = [j \in ViewerJobs |-> "done"]
  /\ files \in SUBSET {j \in ViewerJobs : store[j].results.viewer.htmlPath}
  /\ sweep = NoSweep
  /\ probe = NoProbe
  /\ call = NoCall

ViewerNext ==
  \/ \E t \in Times : SweepFind(t)
  \/ \E j \in ViewerJobs : SweepJob(j)
  \/ \E v \in ViewerIds, t \in Times : GetViewer(v, t)

ViewerSpec == ViewerInit /\ [][ViewerNext]_vars

\* ------------------------------------------------- pose post-processor
\* rmsd_lb of a pose handed to clusterPoses (tenths); -1: the pose has no
\* rmsd_lb, as the poses mapped by processDockingJob
ClusterRmsd == {-1, 0, 20, 30}
\* thresholds handed to clusterPoses (tenths)
ClusterThresholds == {0, 20}

\* a pose with score sc and rmsd_lb r at position i of the list
ClusterPose(i, sc, r) ==
  IF r < 0 THEN [poseId |-> i, score |-> sc]
  ELSE [poseId |-> i, score |-> sc, rmsd_lb |-> r]

\* the pose lists handed to clusterPoses
ClusterPoseLists ==
  UNION { { [i \in 1..n |-> ClusterPose(i, f[i][1], f[i][2])] :
              f \in [1..n -> EngineScores \X ClusterRmsd] } :
          n \in 0..MaxClusterPoses }

\* a caller is about to call clusterPoses(poses, rmsdThreshold)
ClusterInit ==
  /\ Started(Jobs)
  /\ store = [j \in {} |-> NewJobDoc]
  /\ pc = [j \in Jobs |-> "idle"]
  /\ files = {}
  /\ sweep = NoSweep
  /\ probe = NoProbe
  /\ call \in [poses : ClusterPoseLists, rmsdThreshold : ClusterThresholds,
               returned : {FALSE}, clusters : {<< >>}]

\* the call returns the cluster list
CallClusterPoses ==
  /\ ~ call.returned
  /\ call' = [call EXCEPT !.returned = TRUE,
                          !.clusters = clusterPoses(call.poses, call.rmsdThreshold)]
  /\ UNCHANGED << store, params, job, pc, thrown, inflight, faults,
                  response, viewerResp, run, probe >>
  /\ UNCHANGED probeVars
  /\ UNCHANGED runnerVars
  /\ UNCHANGED envVars

ClusterNext == CallClusterPoses

ClusterSpec == ClusterInit /\ [][ClusterNext]_vars

\* ------------------------------------------------ the stdout handler
\* a 'data' event of the observed run: the handler acts on the chunk, the
\* values it hands to onProgress and the output it has read are recorded
RunData(chunk) ==
  /\ ~ run.closed
  /\ Len(run.stream) + Len(chunk) <= MaxStream
  /\ LET st == OnData(run.outputBuffer, run.lastProgress, run.promise, chunk)
     IN run' = [outputBuffer |-> st.outputBuffer,
                lastProgress |-> st.lastProgress,
                promise |-> st.promise,
                delivered |-> run.delivered \o st.calls,
                stream |-> run.stream \o chunk,
                closed |-> run.closed,
                code |-> run.code]
  /\ UNCHANGED << store, params, job, pc, thrown, inflight, faults,
                  response, viewerResp, call, probe >>
  /\ UNCHANGED probeVars
  /\ UNCHANGED runnerVars
  /\ UNCHANGED envVars

\* a 'data' event with any chunk the engine can still print
RunStdout ==
  \E chunk \in Chunks(run.outputBuffer # << >>, MaxStream - Len(run.stream)) :
    RunData(chunk)

\* runDocking has spawned the engine
HandlerInit ==
  /\ Started(Jobs)
  /\ store = [j \in {} |-> NewJobDoc]
  /\ pc = [j \in Jobs |-> "idle"]
  /\ files = {}
  /\ sweep = NoSweep
  /\ probe = NoProbe
  /\ call = NoCall

HandlerNext == RunStdout

HandlerSpec == HandlerInit /\ [][HandlerNext]_vars

\* python.on('close') of the observed run: the engine has exited with code
\* after its output was delivered
RunClose(code) ==
  /\ ~ run.closed
  /\ run' = [run EXCEPT !.closed = TRUE, !.code = code, !.promise = AfterClose(@, code)]
  /\ UNCHANGED << store, params, job, pc, thrown, inflight, faults,
                  response, viewerResp, call, probe >>
  /\ UNCHANGED probeVars
  /\ UNCHANGED runnerVars
  /\ UNCHANGED envVars

\* the engine exits with any code
RunExit == \E code \in ExitCodes : RunClose(code)

\* the stdout handler and the close handler of one run
FramingNext == RunStdout \/ RunExit

FramingSpec == HandlerInit /\ [][FramingNext]_vars

\* ----------------------------------------------- the observed probe
\* checkVinaAvailability has spawned the engine, which will answer reply
ProbeInit ==
  /\ Started(Jobs)
  /\ store = [j \in {} |-> NewJobDoc]
  /\ pc = [j \in Jobs |-> "idle"]
  /\ files = {}
  /\ sweep = NoSweep
  /\ call = NoCall
  /\ probe \in [state : {"pending"}, reply : ProbeReplies,
                 result : {NoProbeResult}]

ProbeNext == ProbeClose \/ ProbeSpawnError

ProbeSpec == ProbeInit /\ [][ProbeNext]_vars

\* ------------------------------------------------ two concurrent jobs
\* two submissions that the server runs at the same time
PairJobs == {"j1", "j2"}

\* the output of the engine, a line at a time
PairChunks == {<< m, NL >> : m \in EngineMessages}

\* the payload of the success message of either run
PairResults ==
  {[hasPoses |-> TRUE,
    poses |-> << [poseId |-> 1, score |-> -90, rmsd_lb |-> 0] >>,
    best_affinity |-> -90, viewer |-> NoViewer]}

\* the startup probe has found the engine and no request has been taken
PairInit ==
  /\ vinaAvailable = TRUE
  /\ vinaStatus = "available"
  /\ params = [j \in PairJobs |-> [numPoses |-> 9, method |-> "vina"]]
  /\ job = [j \in PairJobs |-> NewMem]
  /\ thrown = [j \in PairJobs |-> NoError]
  /\ promise = [j \in PairJobs |-> NoPromise]
  /\ child = [j \in PairJobs |-> NoChild]
  /\ received = [j \in PairJobs |-> 0]
  /\ outputBuffer = [j \in PairJobs |-> << >>]
  /\ lastProgress = [j \in PairJobs |-> 0]
  /\ inflight = [j \in PairJobs |-> {}]
  /\ faults = 0
  /\ now = 0
  /\ response = [j \in PairJobs |-> NoResponse]
  /\ viewerResp = NoResponse
  /\ run = NoRun
  /\ store = [j \in {} |-> NewJobDoc]
  /\ pc = [j \in PairJobs |-> "idle"]
  /\ files = {}
  /\ sweep = NoSweep
  /\ probe = NoProbe
  /\ call = NoCall

PairNext ==
  \/ \E j \in PairJobs, p \in RequestIds : Submit(j, p, "known", 0, "vina")
  \/ \E j \in PairJobs : StartRun(j)
  \/ \E j \in PairJobs : RunDocking(j)
  \/ \E j \in PairJobs : SpawnError(j)
  \/ \E j \in PairJobs, chunk \in PairChunks : StdoutData(j, chunk)
  \/ \E j \in PairJobs, code \in ExitCodes : ChildClose(j, code)
  \/ \E j \in PairJobs : RunRejected(j)
  \/ \E j \in PairJobs, res \in PairResults : ProcessResultsOf(j, res)
  \/ \E j \in PairJobs : CatchError(j)
  \/ \E j \in PairJobs, v \in ProgressValues : ApplyProgress(j, v)
  \/ \E j \in PairJobs, v \in ProgressValues : FailProgress(j, v)

PairSpec == PairInit /\ [][PairNext]_vars

\* ------------------------------------------------------- specification
Next ==
  \/ \E reply \in ProbeReplies : CheckVinaAvailability(reply)
  \/ \E j \in Jobs, p \in RequestIds, l \in RequestIds,
        n \in RequestNumPoses, m \in RequestMethods : Submit(j, p, l, n, m)
  \/ \E j \in Jobs : StartRun(j)
  \/ \E j \in Jobs : SimProgress(j)
  \/ \E j \in Jobs : SimGenerate(j)
  \/ \E j \in Jobs : CatchError(j)
  \/ \E j \in Jobs : RunDocking(j)
  \/ \E j \in Jobs : SpawnError(j)
  \/ \E j \in Jobs : StdoutChunk(j)
  \/ \E j \in Jobs, code \in ExitCodes : ChildClose(j, code)
  \/ \E j \in Jobs : RunRejected(j)
  \/ \E j \in Jobs : ProcessResults(j)
  \/ \E j \in Jobs, v \in ProgressValues : ApplyProgress(j, v)
  \/ \E j \in Jobs, v \in ProgressValues : FailProgress(j, v)
  \/ \E t \in Times : SweepFind(t)
  \/ \E j \in Jobs : SweepJob(j)

Spec == Init /\ [][Next]_vars

\* the continuation of processDockingJob that follows a settled await on
\* the engine path: the first save, the launch, the rejected run and the
\* catch block; its steps exclude each other by the position pc[j]
ProcessStep(j) ==
  \/ StartRun(j)
  \/ RunDocking(j)
  \/ RunRejected(j)
  \/ CatchError(j)

\* the event loop runs every continuation that is ready; the engine is
\* free to hang and the store is free to answer at any time
Fairness == \A j \in Jobs : WF_vars(ProcessStep(j))

FairSpec == Init /\ [][Next]_vars /\ Fairness

\* --------------------------------------------------------------- claims
\* C1: the persisted progress of a job never decreases from one store
\* state to the next.
C1_ProgressNeverDecreases ==
  [][\A j \in DOMAIN store : store'[j].progress >= store[j].progress]_vars

\* C2: a completed job has results and no error, a failed job has an error
\* and no results, a pending or running job has neither.
C2_TerminalExclusivity ==
  \A j \in DOMAIN store :
    /\ store[j].status = "completed" =>
         store[j].results.populated /\ store[j].error = NoError
    /\ store[j].status = "failed" =>
         store[j].error # NoError /\ ~ store[j].results.populated
    /\ store[j].status \in {"pending", "running"} =>
         ~ store[j].results.populated /\ store[j].error = NoError

\* C3: the persisted status changes only along pending -> running,
\* running -> completed and running -> failed; a terminal status never
\* changes.
C3_OnlyThreeTransitions ==
  [][\A j \in DOMAIN store :
       store'[j].status # store[j].status =>
         << store[j].status, store'[j].status >> \in
           {<< "pending", "running" >>, << "running", "completed" >>,
            << "running", "failed" >>}]_vars

\* C4: a run whose engine exits with a non-zero code is never persisted as
\* completed, even if a success message was parsed before the exit.
C4_NonZeroExitNeverCompleted ==
  \A j \in DOMAIN store :
    (child[j].state = "closed" /\ child[j].code # 0) =>
      store[j].status # "completed"

\* the persisted job is failed with an error message and without results
FailedDoc(d) ==
  d.status = "failed" /\ d.error # NoError /\ ~ d.results.populated

\* job j is persisted as failed with an error message and without results
PersistedFailed(j) == j \in DOMAIN store /\ FailedDoc(store[j])

\* the engine of job j exited with a non-zero code and no success message
\* had been parsed from its output
ExitFailure(j) ==
  /\ child[j].state = "closed"
  /\ child[j].code # 0
  /\ promise[j].state # "resolved"

\* C5 as stated: whenever the engine exits with a non-zero code without a
\* success message, the job eventually is failed with a non-empty error
\* and without results.
C5_ExitFailureLeadsToFailed ==
  \A j \in Jobs : ExitFailure(j) ~> PersistedFailed(j)

\* C5 as amended: whenever the engine exits with a non-zero code without a
\* success message, eventually the job is failed with a non-empty error and
\* without results, or the store has rejected the write of the failed state.
C5_ExitFailureLeadsToFailedOrRejected ==
  \A j \in Jobs : ExitFailure(j) ~> (PersistedFailed(j) \/ pc[j] = "rejected")

\* the job is failed because its engine exited with a non-zero code
C5_Witness ==
  \E j \in DOMAIN store :
    /\ ExitFailure(j)
    /\ FailedDoc(store[j])
    /\ store[j].error = "Vina docking failed"

\* C6: once the engine process has exited without a success message having
\* been parsed, the run is settled as a failure, whatever the exit code.
C6_ExitWithoutSuccessRejects ==
  \A j \in Jobs :
    (child[j].state = "closed" /\ promise[j].state # "resolved") =>
      promise[j].state = "rejected"

\* the errors of a failed launch
LaunchErrors == {"spawn failed", "mkdir failed"}

\* C7 as stated: after a spawn error or a failed mkdir, when
\* processDockingJob has ended the job is persisted as failed with the
\* error message and without results.
C7_LaunchFailurePersisted ==
  \A j \in DOMAIN store :
    (pc[j] \in {"done", "rejected"} /\ thrown[j] \in LaunchErrors) =>
      FailedDoc(store[j]) /\ store[j].error = thrown[j]

\* C7 as amended: a spawn error rejects the run; after a spawn error or a
\* failed mkdir the job is never completed, and when the catch block of
\* processDockingJob has saved, the job is persisted as failed with the
\* error message and without results.
C7_LaunchFailureHandled ==
  \A j \in DOMAIN store :
    /\ child[j].state = "failed" =>
         promise[j] = [state |-> "rejected", error |-> "spawn failed"]
    /\ (child[j].state = "failed" /\ pc[j] \in {"done", "rejected"}) =>
         thrown[j] = "spawn failed"
    /\ thrown[j] \in LaunchErrors => store[j].status # "completed"
    /\ (pc[j] = "done" /\ thrown[j] \in LaunchErrors) =>
         FailedDoc(store[j]) /\ store[j].error = thrown[j]

\* the job is failed because its engine could not be spawned
C7_Witness ==
  \E j \in DOMAIN store :
    /\ child[j].state = "failed"
    /\ FailedDoc(store[j])
    /\ store[j].error = "spawn failed"

\* the list is in ascending order of score
SortedByScore(poses) ==
  \A a, b \in 1..Len(poses) : a < b => poses[a].score <= poses[b].score

\* C8: in every completed job the persisted poses are sorted ascending by
\* score and the persisted bestPose.score is the score of the first pose.
C8_PosesSorted ==
  \A j \in DOMAIN store :
    store[j].status = "completed" =>
      /\ SortedByScore(store[j].results.poses)
      /\ "bestPose" \in DOMAIN store[j].results
      /\ store[j].results.bestPose.score = store[j].results.poses[1].score

\* C9: whenever the persisted status is completed, progress is 100, the
\* results are populated and completed-at is set.
C9_CompletedIsWhole ==
  \A j \in DOMAIN store :
    store[j].status = "completed" =>
      /\ store[j].progress = 100
      /\ store[j].results.populated
      /\ store[j].completedAt

\* the results of job j were produced by the synthetic generator: the job
\* is completed and runDocking was never called for it
BySynthetic(j) ==
  j \in DOMAIN store /\ store[j].status = "completed" /\ promise[j] = NoPromise

\* the results of job j were produced by the engine: the job is completed
\* after runDocking resolved
ByEngine(j) ==
  /\ j \in DOMAIN store
  /\ store[j].status = "completed"
  /\ promise[j].state = "resolved"

\* C10: a job completed by the synthetic generator for a positive
\* numPoses = n has exactly n poses and exactly 3 clusters.
C10_SyntheticCounts ==
  \A j \in DOMAIN store :
    (BySynthetic(j) /\ params[j].numPoses > 0) =>
      /\ Len(store[j].results.poses) = params[j].numPoses
      /\ Len(store[j].results.clusters) = 3

\* a synthetic job for numPoses = 9 is completed
C10_Witness ==
  \E j \in DOMAIN store :
    /\ BySynthetic(j)
    /\ params[j].numPoses = 9
    /\ Len(store[j].results.poses) = 9

\* C11: the results of every completed job, as the job-status read returns
\* them, carry a method tag that is "simulated" when the synthetic
\* generator produced them and "vina-real" when the engine did.
C11_MethodTagged ==
  \A j \in DOMAIN store :
    store[j].status = "completed" =>
      /\ "method" \in DOMAIN GetJob(j).results
      /\ BySynthetic(j) => GetJob(j).results.method = "simulated"
      /\ ByEngine(j) => GetJob(j).results.method = "vina-real"

\* the request j has been answered
Answered(j) == response[j].code # 0

\* no job record exists for request j and no run was started for it
NothingStarted(j) ==
  j \notin DOMAIN store /\ pc[j] = "refused" /\ job[j] = NewMem

\* C14: a submission whose proteinId or ligandId is missing or malformed
\* is answered 400, no job record is created for it, no run is started,
\* and the answer leaves the stored jobs unchanged.
C14_InvalidIdsRefused ==
  /\ [](\A j \in DOMAIN response :
          (/\ Answered(j)
           /\ {response[j].proteinId, response[j].ligandId}
                \cap {"missing", "malformed"} # {}) =>
            response[j].code = 400 /\ NothingStarted(j))
  /\ [][\A j \in DOMAIN response :
          (response[j].code = 0 /\ response'[j].code = 400) =>
            store' = store]_vars

\* a submission without a ligandId has been answered 400
C14_Witness ==
  \E j \in DOMAIN response :
    /\ response[j].code = 400
    /\ response[j].proteinId = "known"
    /\ response[j].ligandId = "missing"

C18_ResponseIsPending ==
  \A j \in DOMAIN response :
    response[j].code = 201 =>
      response[j].job.status = "pending" /\ response[j].job.progress = 0

RECURSIVE SumMemberCount(_, _)
\* the sum of the memberCount values of clusters[i..]
SumMemberCount(clusters, i) ==
  IF i > Len(clusters) THEN 0
  ELSE clusters[i].memberCount + SumMemberCount(clusters, i + 1)

\* the clusters with their members that clusterPoses builds for the call
CallMembers == ClusterFrom(call.poses, call.rmsdThreshold, 1, {}, << >>)

\* C12: clusterPoses places each input pose in exactly one cluster: the
\* memberCount values it returns sum to the number of input poses, every
\* pose is a member of some cluster and of no two clusters.
C12_EachPoseInOneCluster ==
  call.returned =>
    /\ SumMemberCount(call.clusters, 1) = Len(call.poses)
    /\ Len(CallMembers) = Len(call.clusters)
    /\ \A c \in 1..Len(call.clusters) :
         call.clusters[c].memberCount = Cardinality(CallMembers[c].members)
    /\ \A i \in 1..Len(call.poses) :
         Cardinality({c \in 1..Len(CallMembers) : i \in CallMembers[c].members}) = 1

\* a call returned two clusters, one of them with two members
C12_Witness ==
  /\ call.returned
  /\ Len(call.poses) >= 3
  /\ Len(call.clusters) >= 2
  /\ \E c \in 1..Len(call.clusters) : call.clusters[c].memberCount >= 2

\* the run of job j goes, or went, through the synthetic generator
InSynthetic(j) ==
  pc[j] \in {"sim50", "sim75", "simGenerate"} \/ BySynthetic(j)

\* the run of job j goes, or went, through the process runner
InRunner(j) ==
  pc[j] \in {"runDocking", "awaitRun"} \/ promise[j] # NoPromise

\* C20: the synthetic generator is substituted for a job if and only if
\* the startup probe found the engine unavailable: with an available
\* engine no job runs through the synthetic generator, with an unavailable
\* engine no job runs through the process runner.
C20_SyntheticIffUnavailable ==
  \A j \in DOMAIN pc :
    /\ vinaStatus = "available" => ~ InSynthetic(j)
    /\ vinaStatus = "unavailable" => ~ InRunner(j)

\* the viewer of job j has a file path and an expiry before time t
ViewerExpired(j, t) ==
  /\ store[j].results.populated
  /\ store[j].results.viewer.htmlPath
  /\ store[j].results.viewer.expiresAt < t

\* the viewer of job j is removed: no file, no viewer sub-document
ViewerRemoved(j) ==
  /\ j \notin files
  /\ store[j].results.viewer = NoViewer

\* a pass takes exactly the jobs whose viewer has expired at its clock
\* reading, and no step changes the viewer data or the file of a job that
\* the running pass did not take
SweepTouchesOnlyExpired ==
  /\ (sweep.phase = "idle" /\ sweep'.phase = "loop") =>
       sweep'.found = {j \in DOMAIN store : ViewerExpired(j, sweep'.at)}
  /\ \A j \in DOMAIN store :
       j \notin sweep'.found =>
         /\ store'[j] = store[j]
         /\ (j \in files') = (j \in files)

AnswerFor(v, t) ==
  /\ viewerResp' # viewerResp
  /\ viewerResp'.viewerId = v
  /\ viewerResp'.at = t
  /\ viewerResp'.code # 500

\* viewer v is known to have been created: its job still carries it, or
\* the latest pass found it expired
ViewerCreated(v) == HasViewer(v) \/ v \in sweep.found

\* C17: the viewer endpoint serves the rendering only of an unexpired
\* viewer, answers 410 for a viewer that was created and has expired, before
\* or after any number of sweep passes, and answers 404 only for an id that
\* never existed or for an unexpired viewer whose file is missing.
C17_ExpiredViewerIsGone ==
  [][\A v \in ViewerIds, t \in Times :
       AnswerFor(v, t) =>
         /\ viewerResp'.code = 200 =>
              /\ HasViewer(v)
              /\ ~ (t > store[v].results.viewer.expiresAt)
         /\ (HasViewer(v) /\ t > store[v].results.viewer.expiresAt) =>
              viewerResp'.code = 410
         /\ (v \in sweep.found /\ t >= sweep.at) => viewerResp'.code = 410
         /\ viewerResp'.code = 404 =>
              \/ ~ ViewerCreated(v)
              \/ /\ HasViewer(v)
                 /\ ~ (t > store[v].results.viewer.expiresAt)
                 /\ v \notin files]_vars

\* C19: when the deletion or the save fails for one expired job, the same
\* pass still removes the viewer of every other expired job, and the pass
\* ends so that later passes run.
C19_SweepFailureIsolated ==
  /\ [](sweep.phase = "idle" /\ sweep.failed # {} =>
         \A j \in sweep.found \ sweep.failed : ViewerRemoved(j))
  /\ [][(sweep.phase = "loop" /\ sweep'.failed # sweep.failed) =>
         /\ sweep'.todo = sweep.todo \ (sweep'.failed \ sweep.failed)
         /\ sweep'.phase = IF sweep'.todo = {} THEN "idle" ELSE "loop"]_vars

\* a pass has ended in which one job failed and another job, found expired
\* by the same pass, had its viewer removed
C19_Witness ==
  /\ sweep.phase = "idle"
  /\ sweep.failed # {}
  /\ \E j \in sweep.found \ sweep.failed : ViewerRemoved(j)

\* the engine of job j has been invoked, or its synthetic delays have begun
RunBegun(j) ==
  \/ child[j].state # "none"
  \/ pc[j] \in {"awaitRun", "sim50", "sim75", "simGenerate"}

\* C21: the running state with progress 10 is persisted before the engine
\* is spawned and before the synthetic delays start: the engine is never
\* invoked for a job persisted as pending, and after a failed write of the
\* running state the engine is never invoked.
C21_RunningBeforeEngine ==
  /\ [](\A j \in DOMAIN pc : RunBegun(j) => store[j].status # "pending")
  /\ [][\A j \in DOMAIN pc :
          (child[j].state = "none" /\ child'[j].state # "none") =>
            /\ thrown[j] = NoError
            /\ job[j].dirty = {}
            /\ store[j].status = "running"
            /\ store[j].progress = 10]_vars
  /\ [][\A j \in DOMAIN pc :
          (pc[j] = "start" /\ pc'[j] = "catch") =>
            /\ child'[j].state = "none"
            /\ thrown'[j] # NoError]_vars

\* the engine of a job runs and the store holds the job as running
C21_Witness ==
  \E j \in DOMAIN store :
    /\ child[j].state = "running"
    /\ store[j].status = "running"
    /\ store[j].progress = 10

\* the store has answered a progress write of job j with success
ProgressWritten(j) ==
  /\ inflight'[j] # inflight[j]
  /\ inflight'[j] \subseteq inflight[j]
  /\ faults' = faults

\* C22: a progress-update write changes only the progress field of its
\* job: status, results, error, completed-at and the parameters are left as
\* the store holds them at the time of the write, whichever terminal write
\* or sweep it interleaves with, and the document in memory plays no part.
C22_ProgressWriteIsolated ==
  [][\A j \in DOMAIN store :
       ProgressWritten(j) =>
         /\ \E v \in inflight[j] \ inflight'[j] :
              store'[j] = [store[j] EXCEPT !.progress = v]
         /\ \A k \in DOMAIN store \ {j} : store'[k] = store[k]
         /\ DOMAIN store' = DOMAIN store
         /\ params' = params
         /\ job' = job]_vars

\* a progress write was applied after the terminal write of a completed
\* job, whose status and results are still in place
C22_Witness ==
  \E j \in DOMAIN store :
    /\ store[j].status = "completed"
    /\ store[j].results.populated
    /\ store[j].progress \in ProgressValues

\* the store has rejected a progress write of job j
ProgressWriteFailed(j) ==
  /\ inflight'[j] # inflight[j]
  /\ inflight'[j] \subseteq inflight[j]
  /\ faults' = faults + 1

\* C23: a failed progress write is caught inside the callback: it does not
\* reject the run, does not move the job to failed and leaves the runner
\* and the orchestrator where they were, so that later progress events and
\* the terminal write go on.
C23_ProgressFailureContained ==
  [][\A j \in DOMAIN inflight :
       ProgressWriteFailed(j) =>
         /\ promise'[j] = promise[j]
         /\ pc'[j] = pc[j]
         /\ thrown'[j] = thrown[j]
         /\ job'[j] = job[j]
         /\ store' = store
         /\ child'[j] = child[j]
         /\ lastProgress'[j] = lastProgress[j]
         /\ outputBuffer'[j] = outputBuffer[j]]_vars

\* the write of progress 5 failed (the only fault, and not one of a sweep
\* or of a save of the run), the later event 60 was written and the run
\* is still awaited
C23_Witness ==
  \E j \in DOMAIN store :
    /\ faults > 0
    /\ sweep = NoSweep
    /\ thrown[j] = NoError
    /\ pc[j] = "awaitRun"
    /\ promise[j].state = "pending"
    /\ inflight[j] = {}
    /\ store[j].progress = 60

\* the complete lines of the output read by the observed run
RunLines == SplitLines(run.stream, << >>, << >>).lines

\* the values of the progress messages among the lines, in order
ProgressOf(lines) ==
  LET isProgress(line) == Len(line) = 1 /\ line[1].k = "progress"
      sel == SelectSeq(lines, isProgress)
  IN [i \in 1..Len(sel) |-> sel[i][1].progress]

RECURSIVE KeepGreater(_, _, _, _)
\* the values of vs[i..] that exceed every value kept before them
KeepGreater(vs, i, last, kept) ==
  IF i > Len(vs) THEN kept
  ELSE IF vs[i] > last
       THEN KeepGreater(vs, i + 1, vs[i], Append(kept, vs[i]))
       ELSE KeepGreater(vs, i + 1, last, kept)

\* C24: within one run the progress callback is invoked for a progress
\* message only if its value is strictly greater than the last delivered
\* value (initially 0); the other messages are discarded, so the delivered
\* values form a strictly increasing sequence.
C24_DeliveredStrictlyIncreasing ==
  /\ \A i \in 1..Len(run.delivered) :
       run.delivered[i] > (IF i = 1 THEN 0 ELSE run.delivered[i - 1])
  /\ run.delivered = KeepGreater(ProgressOf(RunLines), 1, 0, << >>)
  /\ run.lastProgress =
       (IF run.delivered = << >> THEN 0 ELSE run.delivered[Len(run.delivered)])

\* the run has read three progress messages, delivered two of them and
\* discarded one
C24_Witness ==
  /\ Len(ProgressOf(RunLines)) = 3
  /\ Len(run.delivered) = 2

\* the state of the handler after the lines, read by a new run
AfterLines(lines) ==
  ProcessLines(lines, 1, [lastProgress |-> 0, calls |-> << >>,
                          promise |-> NoRun.promise])

\* C25: an output line that does not parse is logged and skipped: it does
\* not reject the run and reaches neither the progress callback nor the
\* job, and the lines after it are processed as if it had not been printed.
C25_BadLineSkipped ==
  LET ref == AfterLines(SelectSeq(RunLines, Parses))
  IN /\ run.promise = ref.promise
     /\ run.delivered = ref.calls
     /\ run.lastProgress = ref.lastProgress
     /\ run.promise.state # "rejected"

\* a line that does not parse was followed by a progress message, which
\* was delivered, and by the success message, which resolved the run
C25_Witness ==
  /\ Len(RunLines) = 3
  /\ ~ Parses(RunLines[1])
  /\ run.delivered # << >>
  /\ run.promise.state = "resolved"

\* C26: in a job completed by the real engine the stored clusters are
\* computed with threshold 2.0 on each pose's RMSD-to-best value: a pose
\* other than the first whose RMSD-to-best exceeds 2.0 is not a member of
\* the first pose's cluster and opens a cluster of its own, so more than
\* one cluster is stored.
C26_ClustersFollowRmsd ==
  \A j \in DOMAIN store :
    ByEngine(j) =>
      LET poses == store[j].results.poses
          clusters == store[j].results.clusters
      IN (\E i \in 1..Len(poses) : poses[i].poseId # 1 /\ poses[i].rmsd > 20) =>
           /\ Len(clusters) > 1
           /\ clusters[1].memberCount < Len(poses)

\* the positions of the poses that the clusters before the k-th one hold
AssignedBefore(k) == UNION {CallMembers[c].members : c \in 1..(k - 1)}

\* the first position in input order that no cluster before the k-th holds
FirstUnassigned(k) ==
  CHOOSE i \in 1..Len(call.poses) :
    /\ i \notin AssignedBefore(k)
    /\ \A h \in 1..(i - 1) : h \in AssignedBefore(k)

\* C27: the k-th cluster returned by clusterPoses (k from 0) has clusterId
\* k, its representativePose is the id of the first pose in input order not
\* assigned to an earlier cluster, and its bestScore is that pose's score.
C27_ClusterIdentity ==
  call.returned =>
    \A c \in 1..Len(call.clusters) :
      /\ call.clusters[c].clusterId = c - 1
      /\ \E i \in 1..Len(call.poses) : i \notin AssignedBefore(c)
      /\ call.clusters[c].representativePose =
           call.poses[FirstUnassigned(c)].poseId
      /\ call.clusters[c].bestScore = call.poses[FirstUnassigned(c)].score

\* a call returned two clusters, and a member of one of them has a lower
\* score than the cluster's bestScore
C27_Witness ==
  /\ call.returned
  /\ Len(call.clusters) >= 2
  /\ \E c \in 1..Len(call.clusters) :
       \E i \in CallMembers[c].members :
         call.poses[i].score < call.clusters[c].bestScore

\* a sweep iteration has acted on job j
SweptJob(j) ==
  /\ sweep.phase = "loop"
  /\ j \in sweep.todo
  /\ j \notin sweep'.todo

\* C28: a sweep pass that cleans a job changes only the viewer sub-document
\* of that job: status, progress, error, completed-at and every other
\* result field are the same before and after, and no job record is
\* deleted.
C28_SweepChangesViewerOnly ==
  [][\A j \in DOMAIN store :
       SweptJob(j) =>
         /\ DOMAIN store' = DOMAIN store
         /\ \A k \in DOMAIN store \ {j} : store'[k] = store[k]
         /\ \A f \in Fields \ {"results"} : store'[j][f] = store[j][f]
         /\ DOMAIN store'[j].results = DOMAIN store[j].results
         /\ \A f \in DOMAIN store[j].results \ {"viewer"} :
              store'[j].results[f] = store[j].results[f]]_vars

\* a pass has cleared the viewer of a completed job, whose poses and
\* clusters are still stored
C28_Witness ==
  \E j \in DOMAIN store :
    /\ j \in sweep.found
    /\ j \notin sweep.todo
    /\ store[j].status = "completed"
    /\ store[j].results.viewer = NoViewer
    /\ store[j].results.poses # << >>
    /\ store[j].results.clusters # << >>

\* the save of the completed state of job j was rejected: the error is the
\* store's and the document in memory carries the results
TerminalWriteFailed(j) ==
  /\ thrown[j] = "store write failed"
  /\ job[j].doc.status = "completed"
  /\ job[j].doc.results.populated

\* C29: if the store write of the final completed state fails, the job is
\* left as it is persisted: the orchestrator does not afterwards persist
\* it as failed or as completed.
C29_FailedTerminalWriteLeavesRunning ==
  [][\A j \in DOMAIN store :
       (TerminalWriteFailed(j) /\ store[j].status = "running") =>
         store'[j].status = "running"]_vars

\* C30: every job persisted as completed or failed has completed-at set,
\* and no job persisted as pending or running has it set.
C30_CompletedAtOnTerminal ==
  \A j \in DOMAIN store :
    /\ store[j].status \in {"completed", "failed"} => store[j].completedAt
    /\ store[j].status \in {"pending", "running"} => ~ store[j].completedAt

\* C31: in every completed job the stored best binding score equals the
\* score of the pose ranked first after sorting, whatever best_affinity and
\* pose order the engine reported.
C31_BestScoreIsFirstPose ==
  \A j \in DOMAIN store :
    (store[j].status = "completed" /\ store[j].results.populated) =>
      /\ store[j].results.poses # << >>
      /\ store[j].results.bindingAffinity = store[j].results.poses[1].score

\* the engine of job j reported success and the normalisation of its
\* output threw
NormalisationThrew(j) ==
  /\ promise[j].state = "resolved"
  /\ thrown[j] = "Cannot read properties of undefined"

\* C32 as stated: when the engine reports success and normalising or
\* clustering its output throws, the job is persisted as failed with the
\* exception's message and without results, and is never completed.
C32_NormalisationFailurePersisted ==
  \A j \in DOMAIN store :
    NormalisationThrew(j) =>
      /\ store[j].status # "completed"
      /\ pc[j] \in {"done", "rejected"} =>
           FailedDoc(store[j]) /\ store[j].error = thrown[j]

\* C32 as amended: when the engine reports success and normalising or
\* clustering its output throws, the job is never completed and never has
\* results, and once the save of the catch block has succeeded it is
\* persisted as failed with the exception's message.
C32_NormalisationFailureHandled ==
  \A j \in DOMAIN store :
    NormalisationThrew(j) =>
      /\ store[j].status # "completed"
      /\ ~ store[j].results.populated
      /\ pc[j] = "done" =>
           FailedDoc(store[j]) /\ store[j].error = thrown[j]

\* the success message carried an empty pose list (status completed and
\* progress 100 were set in memory before the exception) and the job is
\* persisted as failed
C32_Witness ==
  \E j \in DOMAIN store :
    /\ NormalisationThrew(j)
    /\ pc[j] = "done"
    /\ job[j].doc.progress = 100
    /\ FailedDoc(store[j])

\* C33: the probe reports the engine as available only when the check-only
\* reply reports no error: a reply with status error yields unavailable
\* (listing the missing dependencies when the reply names them), output
\* that is not a valid message yields unavailable, and the probe always
\* resolves, including when the engine cannot be spawned.
C33_ProbeReportsErrors ==
  /\ probe.state # "crashed"
  /\ probe.state = "resolved" =>
       /\ probe.result.available =>
            probe.reply.parses /\ probe.reply.status # "error"
       /\ (probe.reply.parses /\ probe.reply.status = "error"
           /\ probe.reply.missing = "named") =>
            probe.result.missing = "named"

\* the submit handler has just answered 201 for job j
Accepted(j) ==
  /\ response'[j] # response[j]
  /\ response'[j].code = 201

\* C34: at most one run is ever active per job id: an accepted submission
\* creates exactly one new record under a new id and starts exactly one
\* run for it, and nothing starts a run for an id that already exists; a
\* repeated submission of the same protein and ligand is a distinct job.
C34_OneRunPerJob ==
  /\ [](Cardinality({j \in DOMAIN response : response[j].code = 201})
          <= Cardinality(DOMAIN store))
  /\ [][\A j \in DOMAIN pc :
          /\ Accepted(j) =>
               /\ j \notin DOMAIN store
               /\ DOMAIN store' = DOMAIN store \cup {j}
               /\ pc'[j] = "start"
               /\ \A k \in DOMAIN pc \ {j} : pc'[k] = pc[k]
          /\ (pc'[j] = "start" /\ pc[j] # "start") =>
               Accepted(j) /\ j \notin DOMAIN store
          /\ (child'[j].state = "running" /\ child[j].state # "running") =>
               child[j].state = "none" /\ pc[j] = "runDocking"]_vars

\* two submissions of the same protein and ligand were accepted, and the
\* engines of the two jobs run at the same time
C34_Witness ==
  /\ DOMAIN store = PairJobs
  /\ \A j \in PairJobs : response[j].code = 201 /\ child[j].state = "running"
  /\ response["j1"].proteinId = response["j2"].proteinId
  /\ response["j1"].ligandId = response["j2"].ligandId

\* everything the server holds about job j
JobPart(j) ==
  << IF j \in DOMAIN store THEN store[j] ELSE NewJobDoc, j \in DOMAIN store,
     params[j], job[j], pc[j], thrown[j], promise[j], child[j], received[j],
     outputBuffer[j], lastProgress[j], inflight[j], response[j] >>

\* C38: concurrent runs of different jobs do not interfere: no step of one
\* job changes anything held about another job, persisted record included,
\* and the monotonicity filter of a run changes only on output of its own
\* engine, although both runs use the same VinaDocking instance.
C38_RunsDoNotInterfere ==
  [][\A a \in DOMAIN pc :
       /\ \A b \in DOMAIN pc \ {a} :
            JobPart(a)' # JobPart(a) => JobPart(b)' = JobPart(b)
       /\ lastProgress'[a] # lastProgress[a] =>
            \/ received'[a] # received[a]
            \/ child[a].state = "none" /\ child'[a].state = "running"]_vars

\* both engines run; the run of j1 has delivered 60 and the run of j2 has
\* then delivered 5, and each value is in the record of its own job
C38_Witness ==
  /\ DOMAIN store = PairJobs
  /\ \A j \in PairJobs : child[j].state = "running"
  /\ lastProgress["j1"] = 60 /\ store["j1"].progress = 60
  /\ lastProgress["j2"] = 5 /\ store["j2"].progress = 5

\* job j is persisted as completed with its results
CompletedWithResults(j) ==
  /\ store[j].status = "completed"
  /\ store[j].results.populated
  /\ BySynthetic(j) => params[j].numPoses > 0

\* C35: in every completed job, in real and in synthetic mode and for
\* every positive numPoses, the memberCount values of the stored clusters
\* sum to the number of stored poses.
C35_MemberCountsMatchPoses ==
  \A j \in DOMAIN store :
    CompletedWithResults(j) =>
      SumMemberCount(store[j].results.clusters, 1) = Len(store[j].results.poses)

\* the stored poses of job j that carry the cluster id c
PosesOfCluster(j, c) ==
  {i \in 1..Len(store[j].results.poses) : store[j].results.poses[i].clusterId = c}

\* C36: in every completed job the clusterId of each pose is the id of a
\* stored cluster, and the number of poses that carry a clusterId equals
\* that cluster's memberCount.
C36_PoseClusterIdsMatchClusters ==
  \A j \in DOMAIN store :
    CompletedWithResults(j) =>
      LET poses == store[j].results.poses
          clusters == store[j].results.clusters
      IN /\ \A i \in 1..Len(poses) :
              \E c \in 1..Len(clusters) : clusters[c].clusterId = poses[i].clusterId
         /\ \A c \in 1..Len(clusters) :
              Cardinality(PosesOfCluster(j, clusters[c].clusterId))
                = clusters[c].memberCount

\* C37: in synthetic mode, for every positive numPoses = n, the pose ids of
\* the completed job are exactly 1..n without duplicates, and the
\* representativePose of each stored cluster is the id of a stored pose
\* that carries that cluster's id.
C37_SyntheticIdsAndRepresentatives ==
  \A j \in DOMAIN store :
    (BySynthetic(j) /\ store[j].results.populated /\ params[j].numPoses > 0) =>
      LET poses == store[j].results.poses
          clusters == store[j].results.clusters
      IN /\ {poses[i].poseId : i \in 1..Len(poses)} = 1..params[j].numPoses
         /\ Len(poses) = params[j].numPoses
         /\ \A c \in 1..Len(clusters) :
              \E i \in 1..Len(poses) :
                /\ poses[i].poseId = clusters[c].representativePose
                /\ poses[i].clusterId = clusters[c].clusterId

\* the last line of the output read by the observed run, terminated by a
\* line end or not
LastLine ==
  LET sp == SplitLines(run.stream, << >>, << >>)
  IN IF sp.rest # << >> THEN sp.rest
     ELSE IF sp.lines # << >> THEN sp.lines[Len(sp.lines)]
     ELSE << >>

\* C39: the framing does not depend on how the output is split into data
\* chunks: whatever the chunks were, the callback invocations and the
\* outcome of the run are those of the lines of the whole output; and a
\* success message that is the last line of the output is honoured once
\* the engine has exited with code 0, with or without a line end after it.
C39_FramingChunkIndependent ==
  LET ref == AfterLines(RunLines)
  IN /\ run.delivered = ref.calls
     /\ run.promise = (IF run.closed THEN AfterClose(ref.promise, run.code)
                       ELSE ref.promise)
     /\ (run.closed /\ run.code = 0 /\ LastLine = << SuccessMsg >>)
          => run.promise.state = "resolved"

\* the chunking part of C39 alone
C39_ChunkingOnly ==
  LET ref == AfterLines(RunLines)
  IN /\ run.delivered = ref.calls
     /\ run.promise = (IF run.closed THEN AfterClose(ref.promise, run.code)
                       ELSE ref.promise)

RECURSIVE FirstSuccess(_, _)
\* the index of the first success line among lines[i..], 0 when none
FirstSuccess(lines, i) ==
  IF i > Len(lines) THEN 0
  ELSE IF lines[i] = << SuccessMsg >> THEN i
  ELSE FirstSuccess(lines, i + 1)

\* C40: once the run has settled, resolved on a success message or
\* rejected on a non-zero exit, the progress callback is not invoked again:
\* the values delivered are those of the lines up to the success message,
\* and a rejected run has exited, so that it reads no further output.
C40_NoCallbackAfterSettled ==
  /\ LET k == FirstSuccess(RunLines, 1)
     IN k # 0 => run.delivered = AfterLines(SubSeq(RunLines, 1, k)).calls
  /\ run.promise.state = "rejected" => run.closed

=============================================================================
